---- MODULE Spec2Model ----
(***************************************************************************)
(* Model of budget_manager/db.py: the SQLite-backed ledger (categories,    *)
(* transactions, category limits, spending alerts) and the operations on   *)
(* it.                                                                     *)
(*                                                                         *)
(* Text (TEXT columns, Python str) is a sequence of characters.  A         *)
(* category name is a sequence of one-character strings.  A date is a      *)
(* sequence of character codes relative to "0" (the digits are 0..9, "-"   *)
(* is -3, "/" is -1, " " is -16), so that the order of the codes is the    *)
(* byte order SQLite's BINARY collation compares TEXT with.                *)
(* An amount (a REAL column, a Python float) is an integer number of       *)
(* units; the rounding of doubles is outside the model.                    *)
(* The description column is stored and returned unread by every           *)
(* operation modelled here and is left out.                                *)
(***************************************************************************)
EXTENDS Integers, Sequences, FiniteSets, TLC

VARIABLES categories, transactions, category_limits, spending_alerts, last

vars == <<categories, transactions, category_limits, spending_alerts, last>>

db == <<categories, transactions, category_limits, spending_alerts>>

(***************************************************************************)
(* Bounds and input alphabets                                              *)
(***************************************************************************)
MaxTx == 3

Dash == -3

Space == -16

\* "2024-12-30" (a Monday), "2025-01-05" (the Sunday of that week),
\* "2025-1-5" (the same day, month and day not zero-padded) and
\* "2025-02-30" (no calendar date).
D_2024_12_30 == <<2, 0, 2, 4, Dash, 1, 2, Dash, 3, 0>>

D_2025_01_05 == <<2, 0, 2, 5, Dash, 0, 1, Dash, 0, 5>>

D_2025_1_5 == <<2, 0, 2, 5, Dash, 1, Dash, 5>>

D_2025_02_30 == <<2, 0, 2, 5, Dash, 0, 2, Dash, 3, 0>>

NoName == <<>>

\* The inputs of a specification: the names, dates, amounts, types, limit
\* amounts and periods its calls are made with.  <<>> is the empty string (or
\* None) of an optional name.
\* Spec (limits and alerts): one category under two spellings ("F", " F"),
\* expenses of one amount that is above, at or below the limits, on padded,
\* unpadded and impossible dates, every period.
NameInputs == {<<"F">>, <<" ", "F">>}

DateInputs == {D_2024_12_30, D_2025_01_05, D_2025_1_5, D_2025_02_30}

AmountInputs == {30}

TypeInputs == {"expense", "transfer"}

LimitAmountInputs == {25, 30, 0}

PeriodInputs == {"daily", "weekly", "monthly", "yearly", "hourly"}

\* SpecCategories: "F", " F " and " ", which trim to "F" and to the empty name.
CategoryNameInputs == {<<"F">>, <<" ", "F", " ">>, <<" ">>}

\* SpecBalance: amounts of either sign and of both types.
BalanceAmountInputs == {200, 51, -10}

BalanceTypeInputs == {"income", "expense", "transfer"}

\* SpecLedger: two categories and none, both types, dates of two months.
LedgerNameInputs == {<<"F">>, <<"G">>}

LedgerDateInputs == {D_2024_12_30, D_2025_01_05, D_2025_1_5}

LedgerTypeInputs == {"income", "expense"}

(***************************************************************************)
(* Text                                                                    *)
(***************************************************************************)
\* str.strip(): leading and trailing whitespace removed.
RECURSIVE lstrip(_)
lstrip(s) == IF s # <<>> /\ Head(s) = " " THEN lstrip(Tail(s)) ELSE s

RECURSIVE rstrip(_)
rstrip(s) ==
    IF s # <<>> /\ s[Len(s)] = " " THEN rstrip(SubSeq(s, 1, Len(s) - 1)) ELSE s

strip_noop(s) == s

strip(s) == rstrip(lstrip(s))

\* SQLite's comparison of two TEXT values (BINARY collation): bytewise, a
\* proper prefix sorting first.
RECURSIVE TextLess(_, _)
TextLess(a, b) ==
    IF b = <<>> THEN FALSE
    ELSE IF a = <<>> THEN TRUE
    ELSE IF Head(a) # Head(b) THEN Head(a) < Head(b)
    ELSE TextLess(Tail(a), Tail(b))

TextLeq(a, b) == a = b \/ TextLess(a, b)

(***************************************************************************)
(* Dates: datetime.strptime, timedelta, weekday, strftime and the f-string *)
(* formats                                                                 *)
(***************************************************************************)
IsDigit(c) == c \in 0..9

IsLeap(y) == (y % 4 = 0 /\ y % 100 # 0) \/ y % 400 = 0

DaysInMonth(y, m) ==
    IF m = 2 THEN (IF IsLeap(y) THEN 29 ELSE 28)
    ELSE IF m \in {4, 6, 9, 11} THEN 30 ELSE 31

\* The month field of "%Y-%m-%d": the regular expression 1[0-2]|0[1-9]|[1-9].
MonthField(f) ==
    \/ Len(f) = 2 /\ f[1] = 1 /\ f[2] \in 0..2
    \/ Len(f) = 2 /\ f[1] = 0 /\ f[2] \in 1..9
    \/ Len(f) = 1 /\ f[1] \in 1..9

\* The day field: 3[0-1]|[1-2]\d|0[1-9]|[1-9]| [1-9].
DayField(f) ==
    \/ Len(f) = 2 /\ f[1] = 3 /\ f[2] \in 0..1
    \/ Len(f) = 2 /\ f[1] \in 1..2 /\ IsDigit(f[2])
    \/ Len(f) = 2 /\ f[1] = 0 /\ f[2] \in 1..9
    \/ Len(f) = 1 /\ f[1] \in 1..9
    \/ Len(f) = 2 /\ f[1] = Space /\ f[2] \in 1..9

FieldValue(f) ==
    IF Len(f) = 1 THEN f[1]
    ELSE IF f[1] = Space THEN f[2]
    ELSE 10 * f[1] + f[2]

\* Where the month field ends: the position of the second "-", 0 if none.
SecondDash(s) ==
    IF Len(s) >= 7 /\ s[7] = Dash THEN 7
    ELSE IF Len(s) >= 8 /\ s[8] = Dash THEN 8
    ELSE 0

NoDate == [ok |-> FALSE, year |-> 0, month |-> 0, day |-> 0]

\* datetime.strptime(s, "%Y-%m-%d"): ok = FALSE is its ValueError.
strptime(s) ==
    IF /\ Len(s) >= 8
       /\ \A i \in 1..4 : IsDigit(s[i])
       /\ s[5] = Dash
       /\ SecondDash(s) # 0
    THEN LET k == SecondDash(s)
             mf == SubSeq(s, 6, k - 1)
             df == SubSeq(s, k + 1, Len(s))
             y == 1000 * s[1] + 100 * s[2] + 10 * s[3] + s[4]
         IN  IF /\ MonthField(mf) /\ DayField(df)
                /\ y >= 1
                /\ FieldValue(df) <= DaysInMonth(y, FieldValue(mf))
             THEN [ok |-> TRUE, year |-> y, month |-> FieldValue(mf),
                   day |-> FieldValue(df)]
             ELSE NoDate
    ELSE NoDate

\* date.toordinal(): days since 0001-01-01, that day being 1.
RECURSIVE DaysBeforeMonth(_, _)
DaysBeforeMonth(y, m) ==
    IF m = 1 THEN 0 ELSE DaysBeforeMonth(y, m - 1) + DaysInMonth(y, m - 1)

ToOrdinal(dt) ==
    LET y1 == dt.year - 1
    IN  y1 * 365 + (y1 \div 4) - (y1 \div 100) + (y1 \div 400)
          + DaysBeforeMonth(dt.year, dt.month) + dt.day

\* date.weekday(): Monday is 0, Sunday is 6.
weekday(dt) == (ToOrdinal(dt) + 6) % 7

NextDay(dt) ==
    IF dt.day < DaysInMonth(dt.year, dt.month)
    THEN [dt EXCEPT !.day = dt.day + 1]
    ELSE IF dt.month < 12
    THEN [dt EXCEPT !.month = dt.month + 1, !.day = 1]
    ELSE [dt EXCEPT !.year = dt.year + 1, !.month = 1, !.day = 1]

PrevDay(dt) ==
    IF dt.day > 1
    THEN [dt EXCEPT !.day = dt.day - 1]
    ELSE IF dt.month > 1
    THEN [dt EXCEPT !.month = dt.month - 1,
                    !.day = DaysInMonth(dt.year, dt.month - 1)]
    ELSE [dt EXCEPT !.year = dt.year - 1, !.month = 12, !.day = 31]

\* dt + timedelta(days=n), n of either sign.
RECURSIVE AddDays(_, _)
AddDays(dt, n) ==
    IF n = 0 THEN dt
    ELSE IF n > 0 THEN AddDays(NextDay(dt), n - 1)
    ELSE AddDays(PrevDay(dt), n + 1)

\* The formats {:04d} and {:02d} (and strftime's %Y, %m, %d).
Fmt04(n) == <<(n \div 1000) % 10, (n \div 100) % 10, (n \div 10) % 10, n % 10>>

Fmt02(n) == <<(n \div 10) % 10, n % 10>>

\* f"{year:04d}-{month:02d}-{day:02d}" and strftime("%Y-%m-%d").
FormatDate(y, m, d) == Fmt04(y) \o <<Dash>> \o Fmt02(m) \o <<Dash>> \o Fmt02(d)

strftime(dt) == FormatDate(dt.year, dt.month, dt.day)

(***************************************************************************)
(* The tables.  A row's id is its index: AUTOINCREMENT ids start at 1 and  *)
(* no operation deletes a category, a transaction or an alert.             *)
(*   categories       <<name, ...>>                                        *)
(*   transactions     <<[date, amount, type, category_id], ...>>, with     *)
(*                    category_id = 0 for NULL                             *)
(*   category_limits  {[category_id, limit_amount, period], ...}           *)
(*   spending_alerts  <<[category_id, alert_date, spent_amount,            *)
(*                       limit_amount, period, is_read], ...>>             *)
(* last is the latest call: the operation, its name argument, the error    *)
(* it raised ("" for none), the integer it returned (an id or a count, 0   *)
(* for none) and the boolean it returned (FALSE for none).                 *)
(***************************************************************************)
NullId == 0

Types == {"income", "expense"}

Periods == {"daily", "weekly", "monthly", "yearly"}

Call(op, name, err, ret, flag) ==
    [op |-> op, name |-> name, err |-> err, ret |-> ret, flag |-> flag]

Init ==
    /\ categories = <<>>
    /\ transactions = <<>>
    /\ category_limits = {}
    /\ spending_alerts = <<>>
    /\ last = Call("init_db", NoName, "", 0, FALSE)

\* SELECT id FROM categories WHERE name = ?: the id, NullId when no row.
category_id_of(cats, name) ==
    IF \E i \in 1..Len(cats) : cats[i] = name
    THEN CHOOSE i \in 1..Len(cats) : cats[i] = name
    ELSE NullId

\* add_category's INSERT: the UNIQUE constraint on name refuses a second row
\* (the IntegrityError that is caught and passed over).
add_category_rows(cats, name) ==
    IF category_id_of(cats, strip(name)) # NullId
    THEN cats
    ELSE Append(cats, strip(name))

\* add_category's return value: the SELECT after the INSERT.
add_category(cats, name) ==
    category_id_of(add_category_rows(cats, name), strip(name))

(***************************************************************************)
(* check_and_create_alerts                                                 *)
(***************************************************************************)
\* The window [start_date, end_date) of the period around transaction_date.
Window(period, transaction_date) ==
    LET trans_date == strptime(transaction_date)
        start_of_week == AddDays(trans_date, 0 - weekday(trans_date))
    IN  IF period = "daily"
        THEN [start_date |-> transaction_date,
              end_date |-> strftime(AddDays(trans_date, 1))]
        ELSE IF period = "weekly"
        THEN [start_date |-> strftime(start_of_week),
              end_date |-> strftime(AddDays(start_of_week, 7))]
        ELSE IF period = "monthly"
        THEN [start_date |-> FormatDate(trans_date.year, trans_date.month, 1),
              end_date |->
                  IF trans_date.month = 12
                  THEN FormatDate(trans_date.year + 1, 1, 1)
                  ELSE FormatDate(trans_date.year, trans_date.month + 1, 1)]
        ELSE [start_date |-> FormatDate(trans_date.year, 1, 1),
              end_date |-> FormatDate(trans_date.year + 1, 1, 1)]

\* WHERE col >= start_date AND col < end_date, on TEXT.
InRange(text, w) == TextLeq(w.start_date, text) /\ TextLess(text, w.end_date)

\* SUM(amount) over selected rows; 0 stands for the NULL of an empty
\* selection, which every caller turns into 0.0.
RECURSIVE SumAmount(_)
SumAmount(rows) ==
    IF rows = <<>> THEN 0 ELSE Head(rows).amount + SumAmount(Tail(rows))

SpentInWindow(txs, category_id, w) ==
    LET keep(t) == /\ t.category_id = category_id
                   /\ t.type = "expense"
                   /\ InRange(t.date, w)
    IN  SumAmount(SelectSeq(txs, keep))

\* SELECT id FROM spending_alerts WHERE category_id = ? AND alert_date >= ?
\* AND alert_date < ?
existing_alert(alerts, category_id, w) ==
    \E i \in 1..Len(alerts) :
        /\ alerts[i].category_id = category_id
        /\ InRange(alerts[i].alert_date, w)

\* The spending_alerts table after check_and_create_alerts(category_id,
\* transaction_date) on the transactions txs.
check_and_create_alerts(txs, limits, alerts, category_id, transaction_date) ==
    IF ~ \E l \in limits : l.category_id = category_id
    THEN alerts
    ELSE LET limit_row == CHOOSE l \in limits : l.category_id = category_id
             w == Window(limit_row.period, transaction_date)
             spent_amount == SpentInWindow(txs, category_id, w)
         IN  IF /\ spent_amount > limit_row.limit_amount
                /\ ~ existing_alert(alerts, category_id, w)
             THEN Append(alerts,
                         [category_id |-> category_id,
                          alert_date |-> transaction_date,
                          spent_amount |-> spent_amount,
                          limit_amount |-> limit_row.limit_amount,
                          period |-> limit_row.period,
                          is_read |-> FALSE])
             ELSE alerts

(***************************************************************************)
(* The operations that write                                               *)
(***************************************************************************)
AddCategory(name) ==
    /\ categories' = add_category_rows(categories, name)
    /\ last' = Call("add_category", name, "", add_category(categories, name),
                    FALSE)
    /\ UNCHANGED <<transactions, category_limits, spending_alerts>>

AddTransaction(date, amount, ttype, category) ==
    /\ Len(transactions) < MaxTx
    /\ IF ~ strptime(date).ok \/ ttype \notin Types
       THEN /\ last' = Call("add_transaction", category, "ValueError", 0, FALSE)
            /\ UNCHANGED db
       ELSE LET category_id == IF category # NoName
                               THEN add_category(categories, category)
                               ELSE NullId
                txs == Append(transactions,
                              [date |-> date, amount |-> amount,
                               type |-> ttype, category_id |-> category_id])
            IN  /\ categories' = IF category # NoName
                                 THEN add_category_rows(categories, category)
                                 ELSE categories
                /\ transactions' = txs
                /\ spending_alerts' =
                       IF ttype = "expense" /\ category_id # NullId
                       THEN check_and_create_alerts(txs, category_limits,
                                spending_alerts, category_id, date)
                       ELSE spending_alerts
                /\ last' = Call("add_transaction", category, "", Len(txs),
                                FALSE)
                /\ UNCHANGED category_limits

\* A plain INSERT, without the ON CONFLICT clause and the UNIQUE column.
upsert_limit_insert_only(limits, category_id, limit_amount, period) ==
    limits \cup {[category_id |-> category_id, limit_amount |-> limit_amount,
                  period |-> period]}

\* INSERT ... ON CONFLICT(category_id) DO UPDATE SET limit_amount, period.
upsert_limit(limits, category_id, limit_amount, period) ==
    {l \in limits : l.category_id # category_id}
        \cup {[category_id |-> category_id, limit_amount |-> limit_amount,
               period |-> period]}

SetCategoryLimit(category_name, limit_amount, period) ==
    IF period \notin Periods \/ limit_amount <= 0
    THEN /\ last' = Call("set_category_limit", category_name, "ValueError", 0,
                         FALSE)
         /\ UNCHANGED db
    ELSE /\ categories' = add_category_rows(categories, category_name)
         /\ category_limits' =
                upsert_limit(category_limits,
                             add_category(categories, category_name),
                             limit_amount, period)
         /\ last' = Call("set_category_limit", category_name, "", 0, FALSE)
         /\ UNCHANGED <<transactions, spending_alerts>>

\* DELETE FROM category_limits WHERE category_id = (SELECT id FROM
\* categories WHERE name = ?): the name is compared as given.
remove_category_limit(cats, limits, category_name) ==
    {l \in limits : l.category_id # category_id_of(cats, category_name)}

RemoveCategoryLimit(category_name) ==
    /\ category_limits' =
           remove_category_limit(categories, category_limits, category_name)
    /\ last' = Call("remove_category_limit", category_name, "", 0,
                    category_limits' # category_limits)
    /\ UNCHANGED <<categories, transactions, spending_alerts>>

MarkAlertAsRead(alert_id) ==
    /\ spending_alerts' =
           [i \in 1..Len(spending_alerts) |->
               IF i = alert_id
               THEN [spending_alerts[i] EXCEPT !.is_read = TRUE]
               ELSE spending_alerts[i]]
    /\ last' = Call("mark_alert_as_read", NoName, "", 0,
                    alert_id \in 1..Len(spending_alerts))
    /\ UNCHANGED <<categories, transactions, category_limits>>

MarkAllAlertsAsRead ==
    /\ spending_alerts' =
           [i \in 1..Len(spending_alerts) |->
               [spending_alerts[i] EXCEPT !.is_read = TRUE]]
    /\ last' = Call("mark_all_alerts_as_read", NoName, "",
                    Cardinality({i \in 1..Len(spending_alerts) :
                                    ~ spending_alerts[i].is_read}),
                    FALSE)
    /\ UNCHANGED <<categories, transactions, category_limits>>

(***************************************************************************)
(* The operations that read                                                *)
(***************************************************************************)
\* CASE WHEN type = 'income' THEN amount WHEN type = 'expense' THEN -amount
\* END, the CHECK on type leaving no other case.
signed_amount_unsigned(t) == t.amount

signed_amount(t) == IF t.type = "income" THEN t.amount ELSE 0 - t.amount

RECURSIVE SumSigned(_)
SumSigned(rows) ==
    IF rows = <<>> THEN 0
    ELSE signed_amount(Head(rows)) + SumSigned(Tail(rows))

\* get_balance: float(row["bal"] or 0.0), SUM being NULL on no rows.
get_balance(txs) == SumSigned(txs)

\* The NULL of a TEXT column (no name is one five-character "character").
NullText == <<"NULL">>

Uncategorized ==
    <<"U", "n", "c", "a", "t", "e", "g", "o", "r", "i", "z", "e", "d">>

\* c.name of transactions t LEFT JOIN categories c ON t.category_id = c.id
joined_name(cats, t) ==
    IF t.category_id \in 1..Len(cats) THEN cats[t.category_id] ELSE NullText

\* monthly_report's window [start, end) for (year, month).
report_window(year, month) ==
    [start_date |-> FormatDate(year, month, 1),
     end_date |-> IF month = 12
                  THEN FormatDate(year + 1, 1, 1)
                  ELSE FormatDate(year, month + 1, 1)]

\* The rows of monthly_report's second query: one per group of c.name, in
\* no order yet.
report_groups(cats, txs, year, month) ==
    LET in_window(t) == InRange(t.date, report_window(year, month))
        rows == SelectSeq(txs, in_window)
        names == {joined_name(cats, rows[i]) : i \in 1..Len(rows)}
        of(name) == LET keep(t) == joined_name(cats, t) = name
                    IN  SelectSeq(rows, keep)
    IN  {[category |-> IF name = NullText \/ name = <<>>
                       THEN Uncategorized
                       ELSE name,
          net |-> SumSigned(of(name)),
          group |-> name] : name \in names}

\* ORDER BY net DESC: every order of the groups that is descending in net
\* (the order of equal nets is the engine's choice).
by_category_orders(groups) ==
    {o \in [1..Cardinality(groups) -> groups] :
        /\ \A i, j \in DOMAIN o : i # j => o[i] # o[j]
        /\ \A i, j \in DOMAIN o : i < j => o[i].net >= o[j].net}

\* monthly_report(year, month): the totals, and the lists by_category may be.
monthly_report(cats, txs, year, month) ==
    LET in_window(t) == InRange(t.date, report_window(year, month))
        is_income(t) == in_window(t) /\ t.type = "income"
        is_expense(t) == in_window(t) /\ t.type = "expense"
        income == SumAmount(SelectSeq(txs, is_income))
        expense == SumAmount(SelectSeq(txs, is_expense))
    IN  [year |-> year, month |-> month, income |-> income,
         expense |-> expense, net |-> income - expense,
         by_category |->
             by_category_orders(report_groups(cats, txs, year, month))]

\* list_transactions: the columns its FROM clause offers and the aliases of
\* its result columns (only "c.name as category" has one).
FromColumns ==
    [t |-> {"id", "date", "amount", "type", "category_id", "description"},
     c |-> {"id", "name"}]

ResultAliases == {"category"}

OrderByTerms == <<"date", "id">>

\* SQLite resolves an unqualified ORDER BY term as a result alias, else as a
\* column of the FROM clause, and refuses one that two tables offer
\* ("ambiguous column name").
ambiguous(term) ==
    /\ term \notin ResultAliases
    /\ Cardinality({tbl \in DOMAIN FromColumns : term \in FromColumns[tbl]}) > 1

\* ORDER BY date DESC, id DESC over the row ids ids: the greatest first.
RECURSIVE order_desc(_, _)
order_desc(txs, ids) ==
    IF ids = {} THEN <<>>
    ELSE LET first == CHOOSE i \in ids : \A j \in ids \ {i} :
                          \/ TextLess(txs[j].date, txs[i].date)
                          \/ txs[j].date = txs[i].date /\ j < i
         IN  <<first>> \o order_desc(txs, ids \ {first})

\* LIMIT n of SQLite: the first n rows, every row when n is negative.
sql_limit(rows, n) ==
    IF n < 0 \/ n >= Len(rows) THEN rows ELSE SubSeq(rows, 1, n)

\* An Optional[int] is <<>> (None) or <<n>>.  "if limit:" adds LIMIT ? for a
\* limit that is neither None nor 0.
list_transactions(cats, txs, limit) ==
    IF \E k \in DOMAIN OrderByTerms : ambiguous(OrderByTerms[k])
    THEN [err |-> "OperationalError", rows |-> <<>>]
    ELSE LET ids == order_desc(txs, DOMAIN txs)
             all == [k \in DOMAIN ids |->
                        [id |-> ids[k], date |-> txs[ids[k]].date,
                         amount |-> txs[ids[k]].amount,
                         type |-> txs[ids[k]].type,
                         category |-> joined_name(cats, txs[ids[k]])]]
         IN  [err |-> "",
              rows |-> IF limit # <<>> /\ limit[1] # 0
                       THEN sql_limit(all, limit[1])
                       ELSE all]

NextOn(names, dates, amounts, types, limit_amounts, periods) ==
    \/ \E name \in names : AddCategory(name)
    \/ \E date \in dates, amount \in amounts, ttype \in types,
          category \in names \cup {NoName} :
          AddTransaction(date, amount, ttype, category)
    \/ \E name \in names, amount \in limit_amounts, period \in periods :
          SetCategoryLimit(name, amount, period)
    \/ \E name \in names : RemoveCategoryLimit(name)
    \/ \E alert_id \in 1..MaxTx : MarkAlertAsRead(alert_id)
    \/ MarkAllAlertsAsRead

Next ==
    NextOn(NameInputs, DateInputs, AmountInputs, TypeInputs,
           LimitAmountInputs, PeriodInputs)

Spec == Init /\ [][Next]_vars

NextCategories ==
    NextOn(CategoryNameInputs, {D_2025_01_05}, {30}, {"expense"}, {25},
           {"monthly"})

SpecCategories == Init /\ [][NextCategories]_vars

NextBalance ==
    NextOn({<<"F">>}, {D_2025_01_05, D_2025_02_30}, BalanceAmountInputs,
           BalanceTypeInputs, {25, 0}, {"daily"})

SpecBalance == Init /\ [][NextBalance]_vars

NextLedger ==
    NextOn(LedgerNameInputs, LedgerDateInputs, {30}, LedgerTypeInputs, {25},
           {"monthly"})

SpecLedger == Init /\ [][NextLedger]_vars

\* Limits on two categories, set, replaced and removed around expenses of
\* one day: names "F" and " G", limit amounts 25, 30 and 0, periods daily,
\* weekly and the unknown "hourly".
LimitNameInputs == {<<"F">>, <<" ", "G">>}

LimitPeriodInputs == {"daily", "weekly", "hourly"}

NextLimits ==
    NextOn(LimitNameInputs, {D_2025_01_05}, AmountInputs, {"expense"},
           LimitAmountInputs, LimitPeriodInputs)

SpecLimits == Init /\ [][NextLimits]_vars

(***************************************************************************)
(* What the claims speak of: calendar dates and period windows, defined    *)
(* on the calendar and not on the stored text.                             *)
(***************************************************************************)
\* s is a calendar date written YYYY-MM-DD: four, two and two digits.
IsYMD(s) ==
    /\ Len(s) = 10
    /\ \A i \in {1, 2, 3, 4, 6, 7, 9, 10} : IsDigit(s[i])
    /\ s[5] = Dash /\ s[8] = Dash
    /\ LET y == 1000 * s[1] + 100 * s[2] + 10 * s[3] + s[4]
           m == 10 * s[6] + s[7]
           d == 10 * s[9] + s[10]
       IN  y >= 1 /\ m \in 1..12 /\ d >= 1 /\ d <= DaysInMonth(y, m)

\* The period window a stored date lies in, named by the calendar: the day,
\* the week (Monday to Sunday), the month or the year.
WindowOf(period, date) ==
    LET dt == strptime(date)
    IN  IF period = "daily" THEN <<dt.year, dt.month, dt.day>>
        ELSE IF period = "weekly" THEN <<(ToOrdinal(dt) + 6) \div 7, 0, 0>>
        ELSE IF period = "monthly" THEN <<dt.year, dt.month, 0>>
        ELSE <<dt.year, 0, 0>>

\* The expenses of a category dated in the window of period around date.
WindowTotal(txs, category_id, period, date) ==
    LET keep(t) == /\ t.category_id = category_id
                   /\ t.type = "expense"
                   /\ WindowOf(period, t.date) = WindowOf(period, date)
    IN  SumAmount(SelectSeq(txs, keep))

AllDatesYMD ==
    /\ \A i \in DOMAIN transactions : IsYMD(transactions[i].date)
    /\ \A i \in DOMAIN spending_alerts : IsYMD(spending_alerts[i].alert_date)

\* A step that inserted a transaction, and the row it inserted.
Inserted == Len(transactions') = Len(transactions) + 1

NewTx == transactions'[Len(transactions')]

HasLimit(category_id) == \E l \in category_limits : l.category_id = category_id

LimitOf(category_id) == CHOOSE l \in category_limits : l.category_id = category_id

\* An alert of the category is dated in the window of period around date.
AlertInWindow(category_id, period, date) ==
    \E i \in DOMAIN spending_alerts :
        /\ spending_alerts[i].category_id = category_id
        /\ WindowOf(period, spending_alerts[i].alert_date)
             = WindowOf(period, date)

\* The alert of this limit has fired in the window around date.
FiredInWindow(category_id, limit_row, date) ==
    \E i \in DOMAIN spending_alerts :
        /\ spending_alerts[i].category_id = category_id
        /\ spending_alerts[i].period = limit_row.period
        /\ spending_alerts[i].limit_amount = limit_row.limit_amount
        /\ WindowOf(limit_row.period, spending_alerts[i].alert_date)
             = WindowOf(limit_row.period, date)

\* The name without its leading and trailing spaces.
TrimOf(name) ==
    LET inked == {i \in DOMAIN name : name[i] # " "}
    IN  IF inked = {} THEN <<>>
        ELSE SubSeq(name,
                    CHOOSE i \in inked : \A j \in inked : i <= j,
                    CHOOSE i \in inked : \A j \in inked : i >= j)

\* The category of that name has a limit.
NamedLimit(cats, limits, name) ==
    \E i \in DOMAIN cats :
        cats[i] = TrimOf(name) /\ \E l \in limits : l.category_id = i

\* The sum of the amounts of one type.
TotalOfType(txs, ttype) ==
    LET keep(t) == t.type = ttype
    IN  SumAmount(SelectSeq(txs, keep))

(***************************************************************************)
(* C1.  At most one alert exists per (category, period window): no two     *)
(* alerts of one category carry the same period and have alert dates in    *)
(* the same window of that period.                                         *)
(***************************************************************************)
C1_OneAlertPerWindow ==
    \A i, j \in DOMAIN spending_alerts :
        (/\ i < j
         /\ spending_alerts[i].category_id = spending_alerts[j].category_id
         /\ spending_alerts[i].period = spending_alerts[j].period)
        => WindowOf(spending_alerts[i].period, spending_alerts[i].alert_date)
             # WindowOf(spending_alerts[j].period, spending_alerts[j].alert_date)

C2_Step ==
    (/\ Inserted
     /\ NewTx.type = "expense"
     /\ HasLimit(NewTx.category_id))
    => LET c == NewTx.category_id
           l == LimitOf(c)
           total == WindowTotal(transactions', c, l.period, NewTx.date)
       IN  /\ (~ AlertInWindow(c, l.period, NewTx.date)
                 /\ total > l.limit_amount)
               => spending_alerts' =
                      Append(spending_alerts,
                             [category_id |-> c, alert_date |-> NewTx.date,
                              spent_amount |-> total,
                              limit_amount |-> l.limit_amount,
                              period |-> l.period, is_read |-> FALSE])
           /\ (~ AlertInWindow(c, l.period, NewTx.date)
                 /\ total <= l.limit_amount)
               => spending_alerts' = spending_alerts
           /\ FiredInWindow(c, l, NewTx.date)
               => spending_alerts' = spending_alerts

(***************************************************************************)
(* C2.  An expense insert on a category with limit (L, P), dated in a      *)
(* P-window that holds no alert of the category yet, creates an alert      *)
(* exactly when the window's expense total, the new expense included, is   *)
(* strictly greater than L, and that alert records the transaction's date, *)
(* that total, L, P and is_read = false; an insert into a window whose     *)
(* alert (of period P and limit L) has fired creates none and changes no   *)
(* alert.                                                                  *)
(***************************************************************************)
C2_ExactlyOneAlert == [][C2_Step]_vars

C3_Step ==
    (/\ Inserted
     /\ AllDatesYMD /\ IsYMD(NewTx.date)
     /\ NewTx.type = "expense"
     /\ HasLimit(NewTx.category_id)
     /\ WindowTotal(transactions', NewTx.category_id,
                    LimitOf(NewTx.category_id).period, NewTx.date)
          > LimitOf(NewTx.category_id).limit_amount)
    => (Len(spending_alerts') = Len(spending_alerts) + 1
          <=> ~ \E i \in DOMAIN spending_alerts :
                   /\ spending_alerts[i].category_id = NewTx.category_id
                   /\ spending_alerts[i].period
                        = LimitOf(NewTx.category_id).period
                   /\ WindowOf(spending_alerts[i].period,
                               spending_alerts[i].alert_date)
                        = WindowOf(spending_alerts[i].period, NewTx.date))

(***************************************************************************)
(* C3.  An expense insert on a category with a limit, whose window total   *)
(* exceeds the limit, creates an alert if and only if no alert was created *)
(* before for that category and that window of the configured period, also *)
(* after setLimit changed the period.  Stated for stores whose dates are   *)
(* all written YYYY-MM-DD.                                                 *)
(***************************************************************************)
C3_AlertIffNoneForWindow == [][C3_Step]_vars

C4_Step ==
    /\ (last'.op = "remove_category_limit"
          /\ ~ NamedLimit(categories, category_limits, last'.name))
        => (~ last'.flag /\ UNCHANGED db)
    /\ (/\ last'.op = "remove_category_limit"
        /\ last.op = "set_category_limit" /\ last.err = ""
        /\ last.name = last'.name)
        => (/\ last'.flag
            /\ ~ NamedLimit(categories', category_limits', last'.name))
    /\ (Inserted /\ ~ HasLimit(NewTx.category_id))
        => spending_alerts' = spending_alerts

(***************************************************************************)
(* C4.  removeLimit(name) returns false and changes nothing when the       *)
(* category has no limit or does not exist; called with the name a         *)
(* successful setLimit was just called with, it returns true and deletes   *)
(* the limit; and an expense insert on a category without a limit creates  *)
(* no alert.                                                               *)
(***************************************************************************)
C4_RemoveLimit == [][C4_Step]_vars

NoDuplicateNames ==
    \A i, j \in DOMAIN categories : i # j => categories[i] # categories[j]

\* The step was a successful call that names a category.
NamesCall ==
    /\ last'.err = ""
    /\ \/ last'.op = "add_category"
       \/ last'.op = "set_category_limit"
       \/ last'.op = "add_transaction" /\ last'.name # NoName

C5_Step ==
    /\ \A i \in DOMAIN categories :
           i \in DOMAIN categories' /\ categories'[i] = categories[i]
    /\ NamesCall =>
           LET n == TrimOf(last'.name)
               old == {i \in DOMAIN categories : categories[i] = n}
               new == {i \in DOMAIN categories' : categories'[i] = n}
           IN  /\ Cardinality(new) = 1
               /\ old # {} => categories' = categories
               /\ old = {} => categories' = Append(categories, n)
               /\ last'.op = "add_category" => last'.ret \in new
               /\ last'.op = "add_transaction" => NewTx.category_id \in new
               /\ last'.op = "set_category_limit" =>
                      \E l \in category_limits' : l.category_id \in new
    /\ (/\ last.op = "add_category" /\ last'.op = "add_category"
        /\ TrimOf(last.name) = TrimOf(last'.name))
        => last'.ret = last.ret

(***************************************************************************)
(* C5.  addCategory is a get-or-create by trimmed name: no two categories  *)
(* ever have the same name; a call (of addCategory, or of addTransaction   *)
(* or setLimit with a category name) whose trimmed name exists creates no  *)
(* category and resolves to the existing id, one whose trimmed name does   *)
(* not exist creates exactly that category; ids never change, and two      *)
(* addCategory calls in a row whose names trim alike return the same id.   *)
(***************************************************************************)
C5_GetOrCreate == NoDuplicateNames /\ [][C5_Step /\ NoDuplicateNames']_vars

\* C5's case: addCategory(" F ") returned the id 1 of "F" when a category 2
\* existed, so "F" was there before the call and the call created nothing.
C5_Witness ==
    /\ last.op = "add_category"
    /\ last.name = <<" ", "F", " ">>
    /\ last.ret = 1
    /\ categories = <<<<"F">>, <<>>>>

C6_Step ==
    /\ \A date \in DateInputs, amount \in AmountInputs, ttype \in TypeInputs,
          category \in NameInputs \cup {NoName} :
           (/\ AddTransaction(date, amount, ttype, category)
            /\ ~ IsYMD(date) \/ ttype \notin {"income", "expense"})
           => (last'.err = "ValueError" /\ UNCHANGED db)
    /\ \A name \in NameInputs, amount \in LimitAmountInputs,
          period \in PeriodInputs :
           (/\ SetCategoryLimit(name, amount, period)
            /\ amount <= 0
                 \/ period \notin {"daily", "weekly", "monthly", "yearly"})
           => (last'.err = "ValueError" /\ UNCHANGED db)

(***************************************************************************)
(* C6.  A call that must be rejected is rejected and leaves the store      *)
(* unchanged: addTransaction with a date that is no calendar date written  *)
(* YYYY-MM-DD or with a type other than income and expense, and setLimit   *)
(* with an amount <= 0 or a period outside daily, weekly, monthly, yearly, *)
(* raise ValueError and change no category, transaction, limit or alert.   *)
(***************************************************************************)
C6_RejectedUnchanged == [][C6_Step]_vars

BalanceIsIncomeMinusExpense ==
    /\ get_balance(transactions)
         = TotalOfType(transactions, "income")
             - TotalOfType(transactions, "expense")
    /\ transactions = <<>> => get_balance(transactions) = 0

C7_Step ==
    /\ BalanceIsIncomeMinusExpense'
    /\ get_balance(transactions') # get_balance(transactions)
        => (last'.op = "add_transaction" /\ last'.err = "")

(***************************************************************************)
(* C7.  getBalance() is the sum of the income amounts minus the sum of the *)
(* expense amounts over all transactions, whatever their category and date *)
(* and whatever the limits and alerts; it is 0 on an empty store, and only *)
(* a successful addTransaction changes it.                                 *)
(***************************************************************************)
C7_Balance == BalanceIsIncomeMinusExpense /\ [][C7_Step]_vars

\* C7's case: income 200 then expense 51 (100.0 and 25.5 in halves) give the
\* balance 149, the expense having fired an alert.
C7_Witness ==
    /\ Len(transactions) = 2
    /\ transactions[1].type = "income" /\ transactions[1].amount = 200
    /\ transactions[2].type = "expense" /\ transactions[2].amount = 51
    /\ spending_alerts # <<>>
    /\ get_balance(transactions) = 149

ReportYears == {2024, 2025}

ReportMonths == {1, 12}

RECURSIVE SumNet(_)
SumNet(entries) ==
    IF entries = <<>> THEN 0 ELSE Head(entries).net + SumNet(Tail(entries))

\* What the claim says of monthlyReport(year, month).
C8_ReportOf(year, month) ==
    LET r == monthly_report(categories, transactions, year, month)
        in_month(t) == /\ strptime(t.date).year = year
                       /\ strptime(t.date).month = month
        rows == SelectSeq(transactions, in_month)
        ids == {rows[i].category_id : i \in DOMAIN rows}
        of(c) == LET keep(t) == t.category_id = c IN SelectSeq(rows, keep)
        net_of(c) == TotalOfType(of(c), "income") - TotalOfType(of(c), "expense")
        label(c) == IF c = NullId THEN Uncategorized ELSE categories[c]
    IN  /\ r.income = TotalOfType(rows, "income")
        /\ r.expense = TotalOfType(rows, "expense")
        /\ r.net = r.income - r.expense
        /\ r.by_category # {}
        /\ \A o \in r.by_category :
               /\ Len(o) = Cardinality(ids)
               /\ \A c \in ids : \E k \in DOMAIN o :
                      o[k].category = label(c) /\ o[k].net = net_of(c)
               /\ \A i, j \in DOMAIN o : i < j => o[i].net >= o[j].net
               /\ SumNet(o) = r.net

(***************************************************************************)
(* C8.  monthlyReport(year, month) covers exactly the transactions dated   *)
(* in that month (month 12 included): income and expense are their totals, *)
(* net = income - expense, and byCategory has one entry per category with  *)
(* a transaction in the month, the transactions without category under     *)
(* "Uncategorized", each with its income minus expense, in descending      *)
(* order of net, the nets summing to the report's net.                     *)
(***************************************************************************)
C8_MonthlyReport ==
    \A year \in ReportYears, month \in ReportMonths : C8_ReportOf(year, month)

\* The limits listTransactions is called with: none, 0, 1 and 2.
ListLimits == {<<>>, <<0>>, <<1>>, <<2>>}

\* Stored date a is an earlier day than stored date b.
DateBefore(a, b) == ToOrdinal(strptime(a)) < ToOrdinal(strptime(b))

\* What the claim says of listTransactions(limit).
C9_ListOf(limit) ==
    LET r == list_transactions(categories, transactions, limit)
        full == list_transactions(categories, transactions, <<>>).rows
    IN  /\ r.err = ""
        /\ \A i, j \in DOMAIN r.rows : i < j =>
               \/ DateBefore(r.rows[j].date, r.rows[i].date)
               \/ /\ ~ DateBefore(r.rows[i].date, r.rows[j].date)
                  /\ r.rows[j].id < r.rows[i].id
        /\ limit # <<>> =>
               /\ Len(r.rows) <= limit[1]
               /\ \A k \in DOMAIN r.rows : r.rows[k] = full[k]
               /\ Len(r.rows) = limit[1] \/ Len(r.rows) = Len(transactions)
        /\ limit = <<>> =>
               /\ Len(r.rows) = Len(transactions)
               /\ \A i \in DOMAIN transactions :
                      \E k \in DOMAIN r.rows :
                          /\ r.rows[k].id = i
                          /\ r.rows[k].date = transactions[i].date
                          /\ r.rows[k].amount = transactions[i].amount
                          /\ r.rows[k].type = transactions[i].type

(***************************************************************************)
(* C9.  listTransactions(limit) returns the transactions by date           *)
(* descending, then id descending; with a limit it returns the first       *)
(* limit rows of that order and never more than limit rows, without one it *)
(* returns every transaction once.                                         *)
(***************************************************************************)
C9_ListTransactions == \A limit \in ListLimits : C9_ListOf(limit)

(***************************************************************************)
(* C10.  Every stored transaction has a non-negative amount and a type in  *)
(* {income, expense}.                                                      *)
(***************************************************************************)
C10_NonNegativeAmounts ==
    \A i \in DOMAIN transactions :
        /\ transactions[i].amount >= 0
        /\ transactions[i].type \in {"income", "expense"}

\* Every limit row is well formed and no category has two.
LimitsWellFormed ==
    /\ \A l \in category_limits :
           /\ l.limit_amount > 0
           /\ l.period \in {"daily", "weekly", "monthly", "yearly"}
           /\ l.category_id \in DOMAIN categories
    /\ \A l1, l2 \in category_limits :
           l1.category_id = l2.category_id => l1 = l2

C11_Step ==
    (last'.op = "set_category_limit" /\ last'.err = "")
    => \A amount \in LimitAmountInputs, period \in LimitPeriodInputs :
           SetCategoryLimit(last'.name, amount, period)
           => /\ \E i \in DOMAIN categories' :
                     /\ categories'[i] = TrimOf(last'.name)
                     /\ {l \in category_limits' : l.category_id = i}
                          = {[category_id |-> i, limit_amount |-> amount,
                              period |-> period]}
                     /\ \A l \in category_limits' :
                            l.category_id # i => l \in category_limits
                     /\ \A l \in category_limits :
                            l.category_id # i => l \in category_limits'
              /\ spending_alerts' = spending_alerts
              /\ transactions' = transactions

(***************************************************************************)
(* C11.  setLimit is an upsert: every category has at most one limit, its  *)
(* amount positive and its period one of daily, weekly, monthly, yearly;   *)
(* after a successful setLimit(name, amount, period) the limit of the      *)
(* category of that trimmed name is exactly (amount, period), the limits   *)
(* of the other categories are as before, and the call leaves every alert  *)
(* (its limit_amount and period included) and every transaction as it was. *)
(***************************************************************************)
C11_SetLimitUpsert ==
    LimitsWellFormed /\ [][C11_Step /\ LimitsWellFormed']_vars

\* C11's case: setLimit("F", 30, weekly) has just replaced the limit
\* (25, daily) under which the alert of category 1 fired; the alert keeps
\* its snapshot.
C11_Witness ==
    /\ last.op = "set_category_limit" /\ last.err = ""
    /\ category_limits = {[category_id |-> 1, limit_amount |-> 30,
                           period |-> "weekly"]}
    /\ \E i \in DOMAIN spending_alerts :
           /\ spending_alerts[i].category_id = 1
           /\ spending_alerts[i].limit_amount = 25
           /\ spending_alerts[i].period = "daily"

\* The day number of the Monday of the week of a stored date; day number 1
\* (0001-01-01) is a Monday.
mondayOfWeek(date) ==
    LET o == ToOrdinal(strptime(date)) IN o - ((o - 1) % 7)

\* The stored date lies in [mondayOfWeek(date), mondayOfWeek(date) + 7).
InWeekOf(stored, date) ==
    /\ mondayOfWeek(date) <= ToOrdinal(strptime(stored))
    /\ ToOrdinal(strptime(stored)) < mondayOfWeek(date) + 7

\* The expenses of the category dated in the week of date.
WeekTotal(txs, category_id, date) ==
    LET keep(t) == /\ t.category_id = category_id
                   /\ t.type = "expense"
                   /\ InWeekOf(t.date, date)
    IN  SumAmount(SelectSeq(txs, keep))

C12_Step ==
    (/\ Inserted
     /\ NewTx.type = "expense"
     /\ HasLimit(NewTx.category_id)
     /\ LimitOf(NewTx.category_id).period = "weekly")
    => LET c == NewTx.category_id
           l == LimitOf(c)
           total == WeekTotal(transactions', c, NewTx.date)
           in_week == {i \in DOMAIN spending_alerts :
                          /\ spending_alerts[i].category_id = c
                          /\ InWeekOf(spending_alerts[i].alert_date,
                                      NewTx.date)}
       IN  /\ (in_week = {} /\ total > l.limit_amount)
               => /\ Len(spending_alerts') = Len(spending_alerts) + 1
                  /\ spending_alerts'[Len(spending_alerts')].spent_amount
                       = total
           /\ (in_week = {} /\ total <= l.limit_amount)
               => spending_alerts' = spending_alerts
           /\ (\E i \in in_week : spending_alerts[i].period = "weekly")
               => spending_alerts' = spending_alerts

(***************************************************************************)
(* C12.  The weekly window is [mondayOfWeek(date), mondayOfWeek(date)+7):  *)
(* an expense insert on a category with a weekly limit sums the category's *)
(* expenses dated from the Monday of its week to the following Sunday and  *)
(* no other, fires an alert carrying that sum when it exceeds the limit    *)
(* and the week holds no alert of the category, and fires none when a      *)
(* weekly alert of the category is dated in that week; for every stored    *)
(* date, weeks across a month or year boundary included.                   *)
(***************************************************************************)
C12_WeeklyWindow == [][C12_Step]_vars

====
